---- MODULE Spec2Model ----
(***************************************************************************)
(* Slot machine (GameState, GameEngine, EnhancedSlotMachine orchestrator)  *)
(* and EventDispatcher of the GameDemon repository.                        *)
(*                                                                         *)
(* JavaScript numbers are IEEE-754 doubles.  The probability and payout    *)
(* code multiplies and divides by 0.1, 1875, ... so the model carries a    *)
(* small exact implementation of double arithmetic (round to nearest,      *)
(* ties to even, 53-bit significand) on top of limb-encoded naturals.      *)
(***************************************************************************)
EXTENDS Integers, Sequences, FiniteSets, TLC

\* ------------------------------------------------------------------------
\* Bounds of the model
\* ------------------------------------------------------------------------
MaxSpins == 2          \* spins charged in a run
MaxRegistrations == 2  \* calls of on() and once() made from outside listeners
MaxEmits == 2          \* calls of emit() made from outside listeners
MaxNesting == 1        \* emissions a re-emitting listener nests inside the first

VARIABLES
  gameState,    \* GameState: credits, jackpot, multiplier, luckMeter, statistics, combo, upgrades
  gameEngine,   \* GameEngine: isSpinning
  slotMachine,  \* EnhancedSlotMachine: autoSpinActive, autoSpinTimeout
  uiManager,    \* UIManager: autoSpinActive
  timers,       \* pending setTimeout callbacks: autoSpin (ids), animation (FIFO of spinData)
  spinsCharged, \* number of spin requests charged so far (bounds the run)
  tally,        \* draw statistics: a luck setting and the draws counted for it
  eventDispatcher, \* EventDispatcher: listeners, per event in registration order
  harness,      \* what the callers of the EventDispatcher hold and observed
  memo,         \* the values of the pure double computations, worked out once
  dom,          \* UIManager's spin text and reel classes, and the timers set for them
  inventory     \* InventoryManager: slots, and what localStorage holds under storageKey

slotVars == <<gameState, gameEngine, slotMachine, uiManager, timers, spinsCharged, memo, dom>>
gameVars == <<slotVars, inventory>>
dispatcherVars == <<eventDispatcher, harness>>

\* ------------------------------------------------------------------------
\* Arbitrary-precision naturals: little-endian sequences of 15-bit limbs
\* without high zero limbs (<<>> is 0).
\* ------------------------------------------------------------------------
Base == 32768
LimbBits == 15

RECURSIVE Pow2(_)
Pow2(k) == IF k = 0 THEN 1 ELSE 2 * Pow2(k - 1)

RECURSIVE BTrim(_)
BTrim(x) ==
  IF x = <<>> THEN <<>>
  ELSE IF x[Len(x)] = 0 THEN BTrim(SubSeq(x, 1, Len(x) - 1)) ELSE x

RECURSIVE BFromInt(_)
BFromInt(n) == IF n = 0 THEN <<>> ELSE <<n % Base>> \o BFromInt(n \div Base)

RECURSIVE BToInt(_)
BToInt(x) == IF x = <<>> THEN 0 ELSE Head(x) + Base * BToInt(Tail(x))

BRest(x) == IF x = <<>> THEN <<>> ELSE Tail(x)
BLow(x) == IF x = <<>> THEN 0 ELSE Head(x)

RECURSIVE BAddC(_, _, _)
BAddC(x, y, c) ==
  IF x = <<>> /\ y = <<>> THEN (IF c = 0 THEN <<>> ELSE <<c>>)
  ELSE LET s == BLow(x) + BLow(y) + c
       IN <<s % Base>> \o BAddC(BRest(x), BRest(y), s \div Base)

BAdd(x, y) == BAddC(x, y, 0)

\* x - y for x >= y
RECURSIVE BSubB(_, _, _)
BSubB(x, y, b) ==
  IF x = <<>> THEN <<>>
  ELSE LET d == Head(x) - BLow(y) - b
       IN IF d < 0 THEN <<d + Base>> \o BSubB(Tail(x), BRest(y), 1)
                   ELSE <<d>> \o BSubB(Tail(x), BRest(y), 0)

BSub(x, y) == BTrim(BSubB(x, y, 0))

\* x * k + c for one limb k
RECURSIVE BMulSmallC(_, _, _)
BMulSmallC(x, k, c) ==
  IF x = <<>> THEN (IF c = 0 THEN <<>> ELSE <<c>>)
  ELSE LET p == Head(x) * k + c
       IN <<p % Base>> \o BMulSmallC(Tail(x), k, p \div Base)

BMulSmall(x, k) == BTrim(BMulSmallC(x, k, 0))

RECURSIVE BMul(_, _)
BMul(x, y) ==
  IF y = <<>> \/ x = <<>> THEN <<>>
  ELSE LET rest == BMul(x, Tail(y))
       IN BAdd(BMulSmall(x, Head(y)), IF rest = <<>> THEN <<>> ELSE <<0>> \o rest)

\* -1, 0, 1 as x <, =, > y
RECURSIVE BCmpHigh(_, _, _)
BCmpHigh(x, y, i) ==
  IF i = 0 THEN 0
  ELSE IF x[i] < y[i] THEN -1
  ELSE IF x[i] > y[i] THEN 1
  ELSE BCmpHigh(x, y, i - 1)

BCmp(x, y) ==
  IF Len(x) < Len(y) THEN -1
  ELSE IF Len(x) > Len(y) THEN 1
  ELSE BCmpHigh(x, y, Len(x))

\* <<quotient, remainder>> of x by a one-limb divisor d; i runs from the high limb
RECURSIVE BDivSmallR(_, _, _, _)
BDivSmallR(x, d, i, r) ==
  IF i = 0 THEN <<<<>>, r>>
  ELSE LET cur == r * Base + x[i]
           lower == BDivSmallR(x, d, i - 1, cur % d)
       IN <<lower[1] \o <<cur \div d>>, lower[2]>>

BDivSmall(x, d) ==
  LET qr == BDivSmallR(x, d, Len(x), 0) IN <<BTrim(qr[1]), qr[2]>>

RECURSIVE Zeros(_)
Zeros(n) == IF n = 0 THEN <<>> ELSE <<0>> \o Zeros(n - 1)

BShl(x, k) ==
  IF x = <<>> THEN <<>>
  ELSE Zeros(k \div LimbBits) \o BMulSmall(x, Pow2(k % LimbBits))

BShr(x, k) ==
  LET drop == k \div LimbBits
  IN IF drop >= Len(x) THEN <<>>
     ELSE BDivSmall(SubSeq(x, drop + 1, Len(x)), Pow2(k % LimbBits))[1]

RECURSIVE IntBitLen(_)
IntBitLen(n) == IF n = 0 THEN 0 ELSE 1 + IntBitLen(n \div 2)

BBitLen(x) ==
  IF x = <<>> THEN 0 ELSE (Len(x) - 1) * LimbBits + IntBitLen(x[Len(x)])

BIsOdd(x) == x # <<>> /\ x[1] % 2 = 1

RECURSIVE IntTrailingZeros(_)
IntTrailingZeros(n) == IF n % 2 = 1 THEN 0 ELSE 1 + IntTrailingZeros(n \div 2)

\* for x # 0
RECURSIVE BTrailingZeros(_)
BTrailingZeros(x) ==
  IF x[1] = 0 THEN LimbBits + BTrailingZeros(Tail(x)) ELSE IntTrailingZeros(x[1])

\* ------------------------------------------------------------------------
\* Non-negative doubles: [m |-> natural, e |-> exponent], value m * 2^e,
\* kept canonical (m odd, or m = 0 and e = 0) so that equal values are
\* equal records.
\* ------------------------------------------------------------------------
MantissaBits == 53

FCanon(m, e) ==
  IF m = <<>> THEN [m |-> <<>>, e |-> 0]
  ELSE LET tz == BTrailingZeros(m) IN [m |-> BShr(m, tz), e |-> e + tz]

\* round m * 2^e (plus a non-zero tail below the last bit when sticky)
\* to the nearest double, ties to even
FRound(m, e, sticky) ==
  LET n == BBitLen(m)
  IN IF n <= MantissaBits THEN FCanon(m, e)
     ELSE LET k == n - MantissaBits
              q == BShr(m, k)
              r == BSub(m, BShl(q, k))
              c == BCmp(r, BShl(<<1>>, k - 1))
              up == c > 0 \/ (c = 0 /\ (sticky \/ BIsOdd(q)))
          IN FCanon(IF up THEN BAdd(q, <<1>>) ELSE q, e + k)

FInt(n) == FCanon(BFromInt(n), 0)

FMul(a, b) == FRound(BMul(a.m, b.m), a.e + b.e, FALSE)

FMin2(i, j) == IF i < j THEN i ELSE j

FAdd(a, b) ==
  IF a.m = <<>> THEN b
  ELSE IF b.m = <<>> THEN a
  ELSE LET e == FMin2(a.e, b.e)
       IN FRound(BAdd(BShl(a.m, a.e - e), BShl(b.m, b.e - e)), e, FALSE)

FCmp(a, b) ==
  IF a.m = <<>> /\ b.m = <<>> THEN 0
  ELSE IF a.m = <<>> THEN -1
  ELSE IF b.m = <<>> THEN 1
  ELSE LET e == FMin2(a.e, b.e)
       IN BCmp(BShl(a.m, a.e - e), BShl(b.m, b.e - e))

\* a - b for a >= b
FSub(a, b) ==
  IF b.m = <<>> THEN a
  ELSE LET e == FMin2(a.e, b.e)
       IN FRound(BSub(BShl(a.m, a.e - e), BShl(b.m, b.e - e)), e, FALSE)

FLess(a, b) == FCmp(a, b) < 0

FMin(a, b) == IF FLess(b, a) THEN b ELSE a

DivGuardBits == 75

\* a / d for an integer-valued divisor 0 < d < Base
FDivInt(a, d) ==
  LET qr == BDivSmall(BShl(a.m, DivGuardBits), d)
  IN FRound(qr[1], a.e - DivGuardBits, qr[2] # 0)

\* Math.floor of a double that fits an int
FFloor(a) ==
  IF a.m = <<>> THEN 0
  ELSE IF a.e >= 0 THEN BToInt(BShl(a.m, a.e))
  ELSE BToInt(BShr(a.m, 0 - a.e))

FIsInt(a) == a.e >= 0

\* ------------------------------------------------------------------------
\* SLOT_CONFIG
\* ------------------------------------------------------------------------
INITIAL_CREDITS == 500
INITIAL_JACKPOT == 1000
BASE_COST == 10
MAX_MULTIPLIER == 5
LUCK_INCREMENT == 4
LUCK_DECREMENT == 10
MAX_LUCK == 100
MAX_COMBO_MULTIPLIER == 3
TOTAL_BASE_WIN_PROBABILITY == 1875
DrawRange == 10000
WinChanceCap == 9500

\* 0.1 is the double nearest to 1/10
JACKPOT_CONTRIBUTION == FDivInt(FInt(1), 10)
LUCK_BONUS_MULTIPLIER == FDivInt(FInt(1), 10)
COMBO_BONUS_PER_WIN == FDivInt(FInt(1), 10)

\* the symbols in the key order of SYMBOL_PROBABILITIES
SYMBOLS == <<"cherry", "lemon", "orange", "grape", "strawberry", "diamond", "slot", "star">>
Symbol == {SYMBOLS[i] : i \in 1..Len(SYMBOLS)}

SYMBOL_PROBABILITIES ==
  [cherry |-> 800, lemon |-> 500, orange |-> 300, grape |-> 150,
   strawberry |-> 80, diamond |-> 30, slot |-> 10, star |-> 5]

REEL_DISPLAY_WEIGHTS ==
  [cherry |-> 30, lemon |-> 25, orange |-> 20, grape |-> 15,
   strawberry |-> 8, diamond |-> 4, slot |-> 2, star |-> 1]

PAYOUTS ==
  [cherry |-> [basePayout |-> 10, isJackpot |-> FALSE],
   lemon |-> [basePayout |-> 25, isJackpot |-> FALSE],
   orange |-> [basePayout |-> 50, isJackpot |-> FALSE],
   grape |-> [basePayout |-> 80, isJackpot |-> FALSE],
   strawberry |-> [basePayout |-> 200, isJackpot |-> FALSE],
   diamond |-> [basePayout |-> 400, isJackpot |-> FALSE],
   slot |-> [basePayout |-> 750, isJackpot |-> FALSE],
   star |-> [basePayout |-> 1000, isJackpot |-> TRUE]]

\* ------------------------------------------------------------------------
\* GameEngine: probability system
\* ------------------------------------------------------------------------
\* random < x for the integer random = Math.floor(Math.random() * 10000)
\* and a double x, given floor(x) and whether x is an integer
DrawBelow(random, floorX, isIntX) ==
  random < floorX \/ (random = floorX /\ ~isIntX)

\* the luck bonus without the factor 100
LuckBonusUnscaled(luckMeter) == FMul(FInt(luckMeter), LUCK_BONUS_MULTIPLIER)

LuckBonus(luckMeter) ==
  FMul(FMul(FInt(luckMeter), LUCK_BONUS_MULTIPLIER), FInt(100))

calculateTotalWinChance(luckMeter) ==
  FMin(FAdd(FInt(TOTAL_BASE_WIN_PROBABILITY), LuckBonus(luckMeter)), FInt(WinChanceCap))

\* the successive values of cumulativeProbability in the loop of
\* selectWinningSymbol, one per symbol
RECURSIVE CumulativeFrom(_, _, _)
CumulativeFrom(i, cumulativeProbability, luckBonus) ==
  IF i > Len(SYMBOLS) THEN <<>>
  ELSE LET baseProbability == SYMBOL_PROBABILITIES[SYMBOLS[i]]
           proportionalLuckBonus ==
             FMul(luckBonus, FDivInt(FInt(baseProbability), TOTAL_BASE_WIN_PROBABILITY))
           adjustedProbability == FAdd(FInt(baseProbability), proportionalLuckBonus)
           next == FAdd(cumulativeProbability, adjustedProbability)
       IN <<next>> \o CumulativeFrom(i + 1, next, luckBonus)

CumulativeProbability(luckMeter) == CumulativeFrom(1, FInt(0), LuckBonus(luckMeter))

\* the loop's exit: the first symbol whose cumulative value exceeds random,
\* else the fallback
RECURSIVE SelectFrom(_, _, _)
SelectFrom(cum, random, i) ==
  IF i > Len(cum) THEN "cherry"
  ELSE IF DrawBelow(random, cum[i][1], cum[i][2]) THEN SYMBOLS[i]
  ELSE SelectFrom(cum, random, i + 1)

RECURSIVE BoundsOf(_, _)
BoundsOf(cum, i) ==
  IF i > Len(cum) THEN <<>>
  ELSE << <<FFloor(cum[i]), FIsInt(cum[i])>> >> \o BoundsOf(cum, i + 1)

\* Body(value), with value evaluated once however often Body uses it
With(value, Body(_)) == CHOOSE out \in {Body(v) : v \in {value}} : TRUE

\* <<F(lo), ..., F(hi)>>
RECURSIVE Tabulate(_, _, _)
Tabulate(F(_), lo, hi) ==
  IF lo = hi THEN <<F(lo)>>
  ELSE LET mid == (lo + hi) \div 2
       IN Tabulate(F, lo, mid) \o Tabulate(F, mid + 1, hi)

\* The thresholds depend on luckMeter only; they are computed once for every
\* luck value the meter can hold (0 .. the largest getMaxLuck()).
LuckCeiling == MAX_LUCK + 2 * 25

WinChanceBounds(luckMeter) ==
  LET c == calculateTotalWinChance(luckMeter) IN <<FFloor(c), FIsInt(c)>>

CumulativeBounds(luckMeter) == BoundsOf(CumulativeProbability(luckMeter), 1)

WinChanceTable == Tabulate(WinChanceBounds, 0, LuckCeiling)

CumulativeTable == Tabulate(CumulativeBounds, 0, LuckCeiling)

\* random < calculateTotalWinChance(gameState)
shouldWin(luckMeter, random) ==
  With(memo.winChance[luckMeter + 1],
       LAMBDA totalWinChance : DrawBelow(random, totalWinChance[1], totalWinChance[2]))

selectWinningSymbol(luckMeter, random) ==
  SelectFrom(memo.cumulative[luckMeter + 1], random, 1)

\* ------------------------------------------------------------------------
\* SLOT_CONFIG.UPGRADE_SYSTEM (multipliers in tenths: 1.5 is Tenths(15))
\* ------------------------------------------------------------------------
Tenths(n) == FDivInt(FInt(n), 10)

SYMBOL_UPGRADES ==
  [cherry |-> [maxLevel |-> 10, baseCost |-> 50, costMultiplier |-> Tenths(15), payoutMultiplier |-> Tenths(12)],
   lemon |-> [maxLevel |-> 8, baseCost |-> 150, costMultiplier |-> Tenths(16), payoutMultiplier |-> Tenths(13)],
   orange |-> [maxLevel |-> 6, baseCost |-> 400, costMultiplier |-> Tenths(17), payoutMultiplier |-> Tenths(14)],
   grape |-> [maxLevel |-> 5, baseCost |-> 800, costMultiplier |-> Tenths(18), payoutMultiplier |-> Tenths(15)],
   strawberry |-> [maxLevel |-> 4, baseCost |-> 2000, costMultiplier |-> Tenths(20), payoutMultiplier |-> Tenths(16)],
   diamond |-> [maxLevel |-> 3, baseCost |-> 5000, costMultiplier |-> Tenths(25), payoutMultiplier |-> Tenths(18)],
   slot |-> [maxLevel |-> 2, baseCost |-> 15000, costMultiplier |-> Tenths(30), payoutMultiplier |-> Tenths(20)],
   star |-> [maxLevel |-> 1, baseCost |-> 50000, costMultiplier |-> Tenths(10), payoutMultiplier |-> Tenths(20)]]

LUCK_UPGRADES ==
  [LUCK_GAIN |-> [maxLevel |-> 5, baseCost |-> 1000, costMultiplier |-> Tenths(20)],
   LUCK_RETENTION |-> [maxLevel |-> 3, baseCost |-> 3000, costMultiplier |-> Tenths(25)],
   MAX_LUCK |-> [maxLevel |-> 2, baseCost |-> 10000, costMultiplier |-> Tenths(40)]]

MULTIPLIER_UPGRADES ==
  [COMBO_POWER |-> [maxLevel |-> 5, baseCost |-> 2000, costMultiplier |-> Tenths(22)],
   MAX_MULTIPLIER |-> [maxLevel |-> 3, baseCost |-> 8000, costMultiplier |-> Tenths(30)]]

UpgradeConfig(category, type) ==
  IF category = "symbols" THEN SYMBOL_UPGRADES[type]
  ELSE IF category = "luck" THEN LUCK_UPGRADES[type]
  ELSE MULTIPLIER_UPGRADES[type]

\* Math.pow(x, n) for a level n: 1 for n = 0, x for n = 1, and the
\* product of n factors above that (exact whenever the power is a double)
RECURSIVE MathPow(_, _)
MathPow(x, n) ==
  IF n = 0 THEN FInt(1)
  ELSE IF n = 1 THEN x
  ELSE CHOOSE power \in {FMul(lower, x) : lower \in {MathPow(x, n - 1)}} : TRUE

\* Double arithmetic is done once per argument: the values the game needs
\* are tabulated over the arguments the fields can hold.
UPGRADE_TYPES ==
  <<<<"symbols", "cherry">>, <<"symbols", "lemon">>, <<"symbols", "orange">>,
    <<"symbols", "grape">>, <<"symbols", "strawberry">>, <<"symbols", "diamond">>,
    <<"symbols", "slot">>, <<"symbols", "star">>,
    <<"luck", "LUCK_GAIN">>, <<"luck", "LUCK_RETENTION">>, <<"luck", "MAX_LUCK">>,
    <<"multiplier", "COMBO_POWER">>, <<"multiplier", "MAX_MULTIPLIER">>>>

UpgradeIndex(category, type) ==
  CHOOSE i \in 1..Len(UPGRADE_TYPES) : UPGRADE_TYPES[i] = <<category, type>>

SymbolIndex(symbol) == CHOOSE i \in 1..Len(SYMBOLS) : SYMBOLS[i] = symbol

\* Math.floor(upgradeConfig.baseCost * Math.pow(upgradeConfig.costMultiplier, currentLevel))
upgradeCost(upgradeConfig, currentLevel) ==
  FFloor(FMul(FInt(upgradeConfig.baseCost),
              MathPow(upgradeConfig.costMultiplier, currentLevel)))

UpgradeCostTable ==
  Tabulate(LAMBDA i :
             Tabulate(LAMBDA currentLevel :
                        upgradeCost(UpgradeConfig(UPGRADE_TYPES[i][1], UPGRADE_TYPES[i][2]),
                                    currentLevel),
                      0, UpgradeConfig(UPGRADE_TYPES[i][1], UPGRADE_TYPES[i][2]).maxLevel - 1),
           1, Len(UPGRADE_TYPES))

\* Math.floor(basePayout * Math.pow(upgradeConfig.payoutMultiplier, upgradeLevel))
upgradedPayout(symbol, upgradeLevel) ==
  IF upgradeLevel = 0 THEN PAYOUTS[symbol].basePayout
  ELSE FFloor(FMul(FInt(PAYOUTS[symbol].basePayout),
                   MathPow(SYMBOL_UPGRADES[symbol].payoutMultiplier, upgradeLevel)))

UpgradedPayoutTable ==
  Tabulate(LAMBDA i :
             Tabulate(LAMBDA upgradeLevel : upgradedPayout(SYMBOLS[i], upgradeLevel),
                      0, SYMBOL_UPGRADES[SYMBOLS[i]].maxLevel),
           1, Len(SYMBOLS))

\* Math.max(1, Math.floor(LUCK_DECREMENT * (1 - retentionLevel * 0.2)))
luckDecrement(retentionLevel) ==
  LET retention == FMul(FInt(retentionLevel), Tenths(2))
      d == FFloor(FMul(FInt(LUCK_DECREMENT), FSub(FInt(1), retention)))
  IN IF d < 1 THEN 1 ELSE d

LuckDecrementTable == Tabulate(luckDecrement, 0, LUCK_UPGRADES.LUCK_RETENTION.maxLevel)

\* Math.min(1 + comboCount * COMBO_BONUS_PER_WIN, MAX_COMBO_MULTIPLIER);
\* comboCount is at most the number of spins
comboMultiplier(comboCount) ==
  FMin(FAdd(FInt(1), FMul(FInt(comboCount), COMBO_BONUS_PER_WIN)),
       FInt(MAX_COMBO_MULTIPLIER))

ComboMultiplierTable == Tabulate(comboMultiplier, 0, MaxSpins)

\* the comboCount a value of the comboMultiplier field stands for
ComboIndex(multiplier) ==
  With(memo.comboMultiplier,
       LAMBDA table : CHOOSE i \in 1..Len(table) : table[i] = multiplier)

\* Math.floor(spinCost * JACKPOT_CONTRIBUTION), for the spin cost of a multiplier
jackpotContribution(multiplier) ==
  FFloor(FMul(FInt(BASE_COST * multiplier), JACKPOT_CONTRIBUTION))

\* gameState.multiplier is 1 or getMaxMultiplier() of a MAX_MULTIPLIER level
MultiplierIndex(multiplier) ==
  IF multiplier = 1 THEN 1 ELSE (multiplier - MAX_MULTIPLIER) \div 2 + 2

MultiplierAt(index) == IF index = 1 THEN 1 ELSE MAX_MULTIPLIER + 2 * (index - 2)

MultiplierCount == MULTIPLIER_UPGRADES.MAX_MULTIPLIER.maxLevel + 2

JackpotContributionAt(index) == jackpotContribution(MultiplierAt(index))

JackpotContributionTable == Tabulate(JackpotContributionAt, 1, MultiplierCount)

\* Math.floor(basePayout * (gameState.comboMultiplier - 1)) for
\* basePayout = upgradedBasePayout * BASE_COST * gameState.multiplier
comboBonus(upgradedBasePayout, multiplier, comboMultiplierValue) ==
  FFloor(FMul(FInt(upgradedBasePayout * BASE_COST * multiplier),
              FSub(comboMultiplierValue, FInt(1))))

ComboBonusTable ==
  Tabulate(LAMBDA i :
    Tabulate(LAMBDA level :
      Tabulate(LAMBDA m :
        Tabulate(LAMBDA c : comboBonus(UpgradedPayoutTable[i][level], MultiplierAt(m),
                                       ComboMultiplierTable[c]),
                 1, Len(ComboMultiplierTable)),
        1, MultiplierCount),
      1, Len(UpgradedPayoutTable[i])),
    1, Len(SYMBOLS))

\* ------------------------------------------------------------------------
\* GameState
\* ------------------------------------------------------------------------
NoUpgrades ==
  [symbols |-> [s \in Symbol |-> 0],
   luck |-> [LUCK_GAIN |-> 0, LUCK_RETENTION |-> 0, MAX_LUCK |-> 0],
   multiplier |-> [COMBO_POWER |-> 0, MAX_MULTIPLIER |-> 0]]

reset ==
  [credits |-> INITIAL_CREDITS, jackpot |-> INITIAL_JACKPOT, multiplier |-> 1,
   luckMeter |-> 0, totalSpins |-> 0, totalWins |-> 0, winStreak |-> 0,
   biggestWin |-> 0, jackpots |-> 0, comboCount |-> 0,
   comboMultiplier |-> FInt(1), upgrades |-> NoUpgrades]

spendCredits(gs, amount) == [gs EXCEPT !.credits = @ - amount]

addCredits(gs, amount) == [gs EXCEPT !.credits = @ + amount]

addToJackpot(gs, amount) == [gs EXCEPT !.jackpot = @ + amount]

\* a jackpot win that leaves the jackpot as it is
winJackpotKept(gs) == [addCredits(gs, gs.jackpot) EXCEPT !.jackpots = @ + 1]

winJackpot(gs) ==
  [addCredits(gs, gs.jackpot) EXCEPT !.jackpot = INITIAL_JACKPOT, !.jackpots = @ + 1]

getMaxLuck(gs) == MAX_LUCK + gs.upgrades.luck.MAX_LUCK * 25

getLuckIncrement(gs) == LUCK_INCREMENT + gs.upgrades.luck.LUCK_GAIN * 1

getLuckDecrement(gs) == memo.luckDecrement[gs.upgrades.luck.LUCK_RETENTION + 1]

increaseLuck(gs) ==
  LET l == gs.luckMeter + getLuckIncrement(gs)
  IN [gs EXCEPT !.luckMeter = IF l < getMaxLuck(gs) THEN l ELSE getMaxLuck(gs)]

decreaseLuck(gs) ==
  LET l == gs.luckMeter - getLuckDecrement(gs)
  IN [gs EXCEPT !.luckMeter = IF l > 0 THEN l ELSE 0]

resetLuck(gs) == [gs EXCEPT !.luckMeter = 0]

getMaxMultiplier(gs) == MAX_MULTIPLIER + gs.upgrades.multiplier.MAX_MULTIPLIER * 2

toggleMaxBet(gs) ==
  [gs EXCEPT !.multiplier = IF @ = 1 THEN getMaxMultiplier(gs) ELSE 1]

incrementCombo(gs) ==
  [gs EXCEPT !.comboCount = @ + 1,
             !.comboMultiplier = memo.comboMultiplier[gs.comboCount + 2]]

resetCombo(gs) == [gs EXCEPT !.comboCount = 0, !.comboMultiplier = reset.comboMultiplier]

recordSpin(gs) == [gs EXCEPT !.totalSpins = @ + 1]

recordWin(gs, amount) ==
  [gs EXCEPT !.totalWins = @ + 1, !.winStreak = @ + 1,
             !.biggestWin = IF amount > @ THEN amount ELSE @]

recordLoss(gs) == [gs EXCEPT !.winStreak = 0]

getUpgradedPayout(gs, symbol) ==
  memo.upgradedPayout[SymbolIndex(symbol)][gs.upgrades.symbols[symbol] + 1]

\* null is modelled as -1
getUpgradeCost(gs, category, type) ==
  LET currentLevel == gs.upgrades[category][type]
      upgradeConfig == UpgradeConfig(category, type)
  IN IF currentLevel >= upgradeConfig.maxLevel THEN -1
     ELSE memo.upgradeCost[UpgradeIndex(category, type)][currentLevel + 1]

CostAffordable(gs, cost) == cost # -1 /\ gs.credits >= cost

canAffordUpgrade(gs, category, type) ==
  With(getUpgradeCost(gs, category, type), LAMBDA cost : CostAffordable(gs, cost))

\* the non-throwing path; the caller catches "Cannot afford upgrade"
purchaseUpgrade(gs, category, type) ==
  With(getUpgradeCost(gs, category, type),
       LAMBDA cost :
         IF ~CostAffordable(gs, cost) THEN gs
         ELSE [spendCredits(gs, cost) EXCEPT !.upgrades[category][type] = @ + 1])

canAffordSpin(gs) == gs.credits >= BASE_COST * gs.multiplier


\* ------------------------------------------------------------------------
\* GameEngine
\* ------------------------------------------------------------------------
\* Math.random() * totalWeight, in half units, for the cosmetic reel symbols
TotalDisplayWeight == 105

RECURSIVE DisplayFrom(_, _, _)
DisplayFrom(i, halves, subtracted) ==
  IF i > Len(SYMBOLS) THEN SYMBOLS[1]
  ELSE LET w == subtracted + REEL_DISPLAY_WEIGHTS[SYMBOLS[i]]
       IN IF halves <= 2 * w THEN SYMBOLS[i] ELSE DisplayFrom(i + 1, halves, w)

getWeightedDisplaySymbol(halves) == DisplayFrom(1, halves, 0)

\* display holds the three first draws, redraw the draw that ends the
\* while loop (the draws that repeated the triple are skipped)
generateLosingCombination(display, redraw) ==
  LET symbols == [i \in 1..3 |-> getWeightedDisplaySymbol(display[i])]
  IN IF symbols[1] = symbols[2] /\ symbols[2] = symbols[3]
     THEN <<symbols[1], symbols[2], getWeightedDisplaySymbol(redraw)>>
     ELSE symbols

LosingTerminates(display, redraw) ==
  LET c == generateLosingCombination(display, redraw)
  IN ~(c[1] = c[2] /\ c[2] = c[3])

\* the branch calculateSpinResult takes for the draw random
spinResultType(gs, random) ==
  IF gs.luckMeter >= getMaxLuck(gs) THEN "luck_jackpot"
  ELSE IF shouldWin(gs.luckMeter, random) THEN "win"
  ELSE "loss"

winResult(winSymbol) ==
  [type |-> "win", symbols |-> <<winSymbol, winSymbol, winSymbol>>, winSymbol |-> winSymbol]

calculateSpinResult(gs, rolls) ==
  With(spinResultType(gs, rolls.win),
       LAMBDA type :
         IF type = "luck_jackpot"
         THEN [type |-> type, symbols |-> <<"star", "star", "star">>, winSymbol |-> "star"]
         ELSE IF type = "win"
              THEN With(selectWinningSymbol(gs.luckMeter, rolls.symbol), winResult)
         ELSE [type |-> type,
               symbols |-> generateLosingCombination(rolls.display, rolls.redraw),
               winSymbol |-> "none"])

IsJackpotResult(result) ==
  result.type = "luck_jackpot" \/ (result.type # "loss" /\ PAYOUTS[result.winSymbol].isJackpot)

calculatePayout(result, gs) ==
  IF result.type = "loss" THEN 0
  ELSE IF IsJackpotResult(result) THEN gs.jackpot
  ELSE LET upgradedBasePayout == getUpgradedPayout(gs, result.winSymbol)
           basePayout == upgradedBasePayout * BASE_COST * gs.multiplier
           bonus == memo.comboBonus[SymbolIndex(result.winSymbol)]
                                   [gs.upgrades.symbols[result.winSymbol] + 1]
                                   [MultiplierIndex(gs.multiplier)]
                                   [ComboIndex(gs.comboMultiplier)]
       IN basePayout + bonus

getSpinCost(gs) == BASE_COST * gs.multiplier

canSpin(engine, gs) == ~engine.isSpinning /\ gs.credits >= getSpinCost(gs)

\* processSpin has no await inside: isSpinning goes true and back to false
\* within the call, so the value it leaves behind is FALSE
processSpin(engine, gs, rolls) ==
  With(calculateSpinResult(gs, rolls),
       LAMBDA result :
         [engine |-> [engine EXCEPT !.isSpinning = FALSE],
          spinData |-> [result |-> result, payout |-> calculatePayout(result, gs),
                        cost |-> getSpinCost(gs)]])

\* ------------------------------------------------------------------------
\* EnhancedSlotMachine (the orchestrator), on the record m of all objects
\* ------------------------------------------------------------------------
NoTimer == 0

Machine ==
  [gameState |-> gameState, gameEngine |-> gameEngine, slotMachine |-> slotMachine,
   uiManager |-> uiManager, timers |-> timers]

Becomes(m) ==
  /\ gameState' = m.gameState
  /\ gameEngine' = m.gameEngine
  /\ slotMachine' = m.slotMachine
  /\ uiManager' = m.uiManager
  /\ timers' = m.timers
  /\ spinsCharged' = spinsCharged + (IF m.gameState.totalSpins = gameState.totalSpins + 1 THEN 1 ELSE 0)
  /\ UNCHANGED <<memo, dom, inventory, tally, dispatcherVars>>

\* setTimeout returns an id no pending timer has
FreshTimer(pending) ==
  LET free == (1..(Cardinality(pending) + 1)) \ pending
  IN CHOOSE id \in free : \A j \in free : id <= j

cancelAutoSpin(m) ==
  IF m.slotMachine.autoSpinTimeout # NoTimer
  THEN [m EXCEPT !.timers.autoSpin = @ \ {m.slotMachine.autoSpinTimeout},
                 !.slotMachine.autoSpinTimeout = NoTimer]
  ELSE m

\* scheduling without the cancelAutoSpin() that precedes setTimeout
scheduleAutoSpinUncancelled(m) ==
  LET id == FreshTimer(m.timers.autoSpin)
  IN [m EXCEPT !.timers.autoSpin = @ \cup {id}, !.slotMachine.autoSpinTimeout = id]

scheduleAutoSpin(m) ==
  LET c == cancelAutoSpin(m)
      id == FreshTimer(c.timers.autoSpin)
  IN [c EXCEPT !.timers.autoSpin = @ \cup {id}, !.slotMachine.autoSpinTimeout = id]

handleGameError(m) ==
  [cancelAutoSpin(m) EXCEPT !.slotMachine.autoSpinActive = FALSE]

resetGame(m) ==
  [cancelAutoSpin(m) EXCEPT !.slotMachine.autoSpinActive = FALSE, !.gameState = reset]

handleWin(gs, result, payout) ==
  With(incrementCombo(recordWin(gs, payout)),
       LAMBDA counted :
         IF IsJackpotResult(result)
         THEN resetLuck(winJackpot(counted))
         ELSE decreaseLuck(addCredits(counted, payout)))

handleLoss(gs) == increaseLuck(resetCombo(recordLoss(gs)))

\* handleSpinRequest up to the timer of waitForReelAnimation: nothing else
\* runs between the SPIN_STARTED emit and that setTimeout
\* recordSpin, spendCredits and addToJackpot of handleSpinRequest
chargeSpin(gs) ==
  LET counted == recordSpin(gs)
      spinCost == getSpinCost(counted)
  IN addToJackpot(spendCredits(counted, spinCost),
                  memo.jackpotContribution[MultiplierIndex(counted.multiplier)])

\* handleSpinRequest from the call of processSpin on, the spin being charged
spinCharged(m1, rolls) ==
  IF ~canSpin(m1.gameEngine, m1.gameState)
  THEN handleGameError(m1)     \* processSpin throws, caught, GAME_EVENTS.ERROR
  ELSE With(processSpin(m1.gameEngine, m1.gameState, rolls),
            LAMBDA p : [m1 EXCEPT !.gameEngine = p.engine,
                                  !.timers.animation = Append(@, p.spinData)])

handleSpinRequest(m, rolls) ==
  IF ~canSpin(m.gameEngine, m.gameState) THEN m
  ELSE With([m EXCEPT !.gameState = chargeSpin(@)], LAMBDA m1 : spinCharged(m1, rolls))

\* the rest of handleSpinRequest, run when the oldest animation timer fires
\* the reschedule at the end of handleSpinRequest
rescheduleAutoSpin(m1) ==
  IF m1.slotMachine.autoSpinActive /\ canAffordSpin(m1.gameState)
  THEN scheduleAutoSpin(m1)
  ELSE m1

processSpinResult(m) ==
  LET spinData == Head(m.timers.animation)
  IN With([m EXCEPT !.gameState = IF spinData.result.type = "loss"
                                  THEN handleLoss(@)
                                  ELSE handleWin(@, spinData.result, spinData.payout),
                    !.timers.animation = Tail(@)],
          rescheduleAutoSpin)

\* the auto_spin_toggled listener
autoSpinToggled(m, active) ==
  LET m1 == [m EXCEPT !.slotMachine.autoSpinActive = active]
  IN IF active THEN scheduleAutoSpin(m1) ELSE cancelAutoSpin(m1)

\* UIManager.toggleAutoSpin
toggleAutoSpin(m) ==
  LET active == ~m.uiManager.autoSpinActive
  IN autoSpinToggled([m EXCEPT !.uiManager.autoSpinActive = active], active)

\* the callback scheduleAutoSpin passes to setTimeout
autoSpinCallback(m, id, rolls) ==
  LET m1 == [m EXCEPT !.timers.autoSpin = @ \ {id}]
  IN IF m1.slotMachine.autoSpinActive /\ canAffordSpin(m1.gameState)
     THEN handleSpinRequest(m1, rolls)
     ELSE m1

triggerJackpot(gs) == [gs EXCEPT !.luckMeter = getMaxLuck(gs)]

\* ------------------------------------------------------------------------
\* InventoryManager.  An item is a record; null is NoItem.  Slot index i of
\* the code (from 0) is position i + 1 of slots.
\* ------------------------------------------------------------------------
MaxSlots == 2          \* options.maxSlots

NoItem == [templateId |-> "null", name |-> "", stackable |-> FALSE, maxStackSize |-> 0,
           quantity |-> 0]

\* two of loadDefaultItemTemplates: a stackable item and one that is not
itemTemplates ==
  [health_potion |-> [name |-> "Health Potion", stackable |-> TRUE, maxStackSize |-> 20],
   iron_sword |-> [name |-> "Iron Sword", stackable |-> FALSE, maxStackSize |-> 1]]

TemplateId == DOMAIN itemTemplates

\* createItem(templateId, { quantity })
createItem(templateId, quantity) ==
  [templateId |-> templateId, name |-> itemTemplates[templateId].name,
   stackable |-> itemTemplates[templateId].stackable,
   maxStackSize |-> itemTemplates[templateId].maxStackSize, quantity |-> quantity]

\* InventoryItem: the stack takes items of its own kind while it has room
canStackWith(slotItem, item) ==
  /\ slotItem.stackable /\ item.stackable
  /\ slotItem.templateId = item.templateId
  /\ slotItem.quantity < slotItem.maxStackSize

\* InventoryItem.stackWith: the stack is filled up; what did not fit remains
stackWith(slotItem, item) ==
  LET room == slotItem.maxStackSize - slotItem.quantity
      moved == IF item.quantity < room THEN item.quantity ELSE room
  IN [slotItem |-> [slotItem EXCEPT !.quantity = @ + moved],
      remaining |-> item.quantity - moved]

\* InventoryItem.split: null (NoItem) unless 0 < quantity < item.quantity
split(item, quantity) ==
  IF quantity <= 0 \/ quantity >= item.quantity
  THEN [item |-> item, splitItem |-> NoItem]
  ELSE [item |-> [item EXCEPT !.quantity = @ - quantity],
        splitItem |-> [item EXCEPT !.quantity = quantity]]

\* InventoryItem.use: false unless 0 < quantity <= item.quantity
use(item, quantity) ==
  IF quantity <= 0 \/ quantity > item.quantity
  THEN [item |-> item, success |-> FALSE]
  ELSE [item |-> [item EXCEPT !.quantity = @ - quantity], success |-> TRUE]

\* InventoryItem.toJSON
toJSON(item) == <<item.templateId, item.quantity>>

\* this.slots.map((item) => (item ? item.toJSON() : null)), null being <<>>
SerializedSlots(slots) ==
  [i \in 1..Len(slots) |-> IF slots[i] = NoItem THEN <<>> ELSE toJSON(slots[i])]

\* nothing stored under storageKey yet
NoStorage == <<>>

NoInventory == [slots |-> [i \in 1..MaxSlots |-> NoItem], storage |-> NoStorage]

saveInventory(inv) == [inv EXCEPT !.storage = SerializedSlots(inv.slots)]

\* the slot index, or -1
findEmptySlot(slots) ==
  IF \E i \in 1..Len(slots) : slots[i] = NoItem
  THEN (CHOOSE i \in 1..Len(slots) :
          slots[i] = NoItem /\ \A j \in 1..(i - 1) : slots[j] # NoItem) - 1
  ELSE -1

\* the loop of tryStackItem from position i on
RECURSIVE tryStackFrom(_, _, _)
tryStackFrom(slots, item, i) ==
  IF i > Len(slots) THEN [slots |-> slots, fullyStacked |-> FALSE, remainingItem |-> item]
  ELSE IF slots[i] # NoItem /\ canStackWith(slots[i], item)
  THEN LET stacked == stackWith(slots[i], item)
           filled == [slots EXCEPT ![i] = stacked.slotItem]
       IN IF stacked.remaining = 0
          THEN [slots |-> filled, fullyStacked |-> TRUE, remainingItem |-> NoItem]
          ELSE tryStackFrom(filled, [item EXCEPT !.quantity = stacked.remaining], i + 1)
  ELSE tryStackFrom(slots, item, i + 1)

tryStackItem(slots, item) == tryStackFrom(slots, item, 1)

\* addItem(templateId, quantity, preferredSlot) with options.autoStack
addItem(inv, templateId, quantity, preferredSlot) ==
  LET item == createItem(templateId, quantity)
      stackResult == IF item.stackable THEN tryStackItem(inv.slots, item)
                     ELSE [slots |-> inv.slots, fullyStacked |-> FALSE,
                           remainingItem |-> item]
      slots == stackResult.slots
      targetSlot == IF \/ preferredSlot = -1
                       \/ preferredSlot >= MaxSlots
                       \/ slots[preferredSlot + 1] # NoItem
                    THEN findEmptySlot(slots)
                    ELSE preferredSlot
  IN IF stackResult.fullyStacked THEN saveInventory([inv EXCEPT !.slots = slots])
     ELSE IF targetSlot = -1 THEN [inv EXCEPT !.slots = slots]   \* "Inventory full"
     ELSE saveInventory([inv EXCEPT !.slots =
                           [slots EXCEPT ![targetSlot + 1] = stackResult.remainingItem]])

removeItem(inv, slotIndex, quantity) ==
  IF slotIndex < 0 \/ slotIndex >= MaxSlots THEN inv
  ELSE LET item == inv.slots[slotIndex + 1]
           parts == split(item, quantity)
       IN IF item = NoItem THEN inv
          ELSE IF quantity = -1 \/ quantity >= item.quantity
          THEN saveInventory([inv EXCEPT !.slots[slotIndex + 1] = NoItem])
          ELSE IF parts.splitItem = NoItem THEN inv
          ELSE saveInventory([inv EXCEPT !.slots[slotIndex + 1] = parts.item])

moveItem(inv, fromSlot, toSlot, quantity) ==
  IF fromSlot = toSlot THEN inv
  ELSE IF fromSlot < 0 \/ fromSlot >= MaxSlots THEN inv
  ELSE IF toSlot < 0 \/ toSlot >= MaxSlots THEN inv
  ELSE LET sourceItem == inv.slots[fromSlot + 1]
           targetItem == inv.slots[toSlot + 1]
           stacked == stackWith(targetItem, sourceItem)
           parts == split(sourceItem, quantity)
       IN IF sourceItem = NoItem THEN inv
          ELSE IF targetItem # NoItem /\ canStackWith(targetItem, sourceItem)
          THEN saveInventory(
                 [inv EXCEPT !.slots[toSlot + 1] = stacked.slotItem,
                             !.slots[fromSlot + 1] =
                                IF stacked.remaining = 0 THEN NoItem
                                ELSE [sourceItem EXCEPT !.quantity = stacked.remaining]])
          ELSE IF targetItem = NoItem
          THEN IF quantity = -1 \/ quantity >= sourceItem.quantity
               THEN saveInventory([inv EXCEPT !.slots[toSlot + 1] = sourceItem,
                                              !.slots[fromSlot + 1] = NoItem])
               ELSE IF parts.splitItem # NoItem
               THEN saveInventory([inv EXCEPT !.slots[toSlot + 1] = parts.splitItem,
                                              !.slots[fromSlot + 1] = parts.item])
               ELSE saveInventory(inv)
          ELSE saveInventory([inv EXCEPT !.slots[fromSlot + 1] = targetItem,
                                         !.slots[toSlot + 1] = sourceItem])

\* this.slots[slotIndex] is undefined outside the array
useItem(inv, slotIndex, quantity) ==
  IF slotIndex < 0 \/ slotIndex >= MaxSlots THEN inv
  ELSE LET item == inv.slots[slotIndex + 1]
           used == use(item, quantity)
       IN IF item = NoItem \/ ~used.success THEN inv
          ELSE saveInventory([inv EXCEPT !.slots[slotIndex + 1] =
                                IF used.item.quantity <= 0 THEN NoItem ELSE used.item])

\* valueA and valueB of the comparator; names are compared in lower case,
\* "health potion" before "iron sword"
sortValue(item, sortBy) ==
  IF sortBy = "quantity" THEN item.quantity
  ELSE IF item.name = "Health Potion" THEN 1 ELSE 2

\* the comparator returns a negative number for (a, b)
comparesBefore(a, b, sortBy, ascending) ==
  IF ascending THEN sortValue(a, sortBy) < sortValue(b, sortBy)
  ELSE sortValue(a, sortBy) > sortValue(b, sortBy)

\* Array.prototype.sort is stable: x goes before the first entry it compares before
RECURSIVE insertSorted(_, _, _, _)
insertSorted(sorted, x, sortBy, ascending) ==
  IF sorted = <<>> THEN <<x>>
  ELSE IF comparesBefore(x, Head(sorted), sortBy, ascending) THEN <<x>> \o sorted
  ELSE <<Head(sorted)>> \o insertSorted(Tail(sorted), x, sortBy, ascending)

RECURSIVE sortItems(_, _, _)
sortItems(items, sortBy, ascending) ==
  IF items = <<>> THEN <<>>
  ELSE insertSorted(sortItems(SubSeq(items, 1, Len(items) - 1), sortBy, ascending),
                    items[Len(items)], sortBy, ascending)

sortInventory(inv, sortBy, ascending) ==
  LET itemsWithSlots == SelectSeq(inv.slots, LAMBDA item : item # NoItem)
      sorted == sortItems(itemsWithSlots, sortBy, ascending)
  IN saveInventory([inv EXCEPT !.slots =
                      [i \in 1..MaxSlots |-> IF i <= Len(sorted) THEN sorted[i] ELSE NoItem]])

\* ------------------------------------------------------------------------
\* The inventory as a state machine: its public operations, called one
\* after the other
\* ------------------------------------------------------------------------
AddQuantities == {1, 19}
MoveQuantities == {-1, 1}
SlotIndices == 0..(MaxSlots - 1)

InventoryBecomes(inv) ==
  /\ inventory' = inv
  /\ UNCHANGED <<slotVars, tally, dispatcherVars>>

AddItem ==
  \E templateId \in TemplateId : \E quantity \in AddQuantities :
    \E preferredSlot \in {-1} \cup SlotIndices :
      \E next \in {addItem(inventory, templateId, quantity, preferredSlot)} :
        InventoryBecomes(next)

RemoveItem ==
  \E slotIndex \in SlotIndices : \E quantity \in MoveQuantities :
    \E next \in {removeItem(inventory, slotIndex, quantity)} : InventoryBecomes(next)

MoveItem ==
  \E fromSlot \in SlotIndices : \E toSlot \in SlotIndices :
    \E quantity \in MoveQuantities :
      \E next \in {moveItem(inventory, fromSlot, toSlot, quantity)} :
        InventoryBecomes(next)

UseItem ==
  \E slotIndex \in SlotIndices :
    \E next \in {useItem(inventory, slotIndex, 1)} : InventoryBecomes(next)

SortInventory ==
  \E sortBy \in {"name", "quantity"} : \E ascending \in BOOLEAN :
    \E next \in {sortInventory(inventory, sortBy, ascending)} : InventoryBecomes(next)

InventoryNext ==
  \/ AddItem
  \/ RemoveItem
  \/ MoveItem
  \/ UseItem
  \/ SortInventory

\* ------------------------------------------------------------------------
\* The slot machine as a state machine
\* ------------------------------------------------------------------------
\* representative values of Math.floor(Math.random() * 10000): a win and a
\* loss for the win draw, the first symbol and the fallback for the symbol draw
Rolls == {0, 9999}
\* representative values of Math.random() * 105, in halves: cherry, star
DisplayRolls == {0, 209}
DisplayChoices == {<<0, 0, 0>>}
UpgradeChoices == {<<"symbols", "orange">>}

RollChoices ==
  {r \in [win : Rolls, symbol : Rolls, display : DisplayChoices, redraw : DisplayRolls] :
     LosingTerminates(r.display, r.redraw)}

\* every table of the pure double computations
Memo ==
  [winChance |-> WinChanceTable, cumulative |-> CumulativeTable,
   upgradeCost |-> UpgradeCostTable, upgradedPayout |-> UpgradedPayoutTable,
   luckDecrement |-> LuckDecrementTable, comboMultiplier |-> ComboMultiplierTable,
   jackpotContribution |-> JackpotContributionTable, comboBonus |-> ComboBonusTable]

\* the page as loaded: <span id="spin-text">SPIN</span>, no reel spinning
NoDom == [spinText |-> "SPIN", spinning |-> {}, timers |-> {}, started |-> 0]

GameInit ==
  /\ memo = Memo
  /\ dom = NoDom
  /\ inventory = NoInventory
  /\ gameState = reset
  /\ gameEngine = [isSpinning |-> FALSE]
  /\ slotMachine = [autoSpinActive |-> FALSE, autoSpinTimeout |-> NoTimer]
  /\ uiManager = [autoSpinActive |-> FALSE]
  /\ timers = [autoSpin |-> {}, animation |-> <<>>]
  /\ spinsCharged = 0

SpinAllowed == spinsCharged < MaxSpins

\* keydown "Space": emit SPIN_STARTED
PressSpace ==
  /\ SpinAllowed
  /\ \E rolls \in RollChoices :
       \E next \in {handleSpinRequest(Machine, rolls)} : Becomes(next)

\* the timer of waitForReelAnimation fires; equal delays fire in order
AnimationDone ==
  /\ timers.animation # <<>>
  /\ \E next \in {processSpinResult(Machine)} : Becomes(next)

ToggleAutoSpin == \E next \in {toggleAutoSpin(Machine)} : Becomes(next)

AutoSpinTimeout ==
  /\ SpinAllowed
  /\ \E id \in timers.autoSpin : \E rolls \in RollChoices :
       \E next \in {autoSpinCallback(Machine, id, rolls)} : Becomes(next)

ToggleMaxBet ==
  \E next \in {[Machine EXCEPT !.gameState = toggleMaxBet(@)]} : Becomes(next)

ResetGame == \E next \in {resetGame(Machine)} : Becomes(next)

TriggerJackpot ==
  \E next \in {[Machine EXCEPT !.gameState = triggerJackpot(@)]} : Becomes(next)

\* UpgradeManager.purchaseUpgrade: a failed purchase is caught and changes nothing
PurchaseUpgrade ==
  \E u \in UpgradeChoices :
    \E next \in {[Machine EXCEPT !.gameState = purchaseUpgrade(@, u[1], u[2])]} :
      Becomes(next)

GameNext ==
  \/ PressSpace
  \/ AnimationDone
  \/ ToggleAutoSpin
  \/ AutoSpinTimeout
  \/ ToggleMaxBet
  \/ ResetGame
  \/ TriggerJackpot
  \/ PurchaseUpgrade

\* ------------------------------------------------------------------------
\* The slot machine later in a game: upgrades have been bought from winnings
\* ------------------------------------------------------------------------
\* the GameState after `level` purchases of one upgrade, each paid with
\* credits won before it (addCredits, then purchaseUpgrade)
RECURSIVE Bought(_, _, _, _)
Bought(gs, category, type, level) ==
  IF level = 0 THEN gs
  ELSE With(Bought(gs, category, type, level - 1),
            LAMBDA before :
              purchaseUpgrade(addCredits(before, getUpgradeCost(before, category, type)),
                              category, type))

\* every level of COMBO_POWER and of the star upgrade, nothing else bought
UpgradedInit ==
  /\ memo = Memo
  /\ dom = NoDom
  /\ inventory = NoInventory
  /\ \E comboPower \in 0..MULTIPLIER_UPGRADES.COMBO_POWER.maxLevel :
       \E star \in 0..SYMBOL_UPGRADES.star.maxLevel :
         gameState = Bought(Bought(reset, "multiplier", "COMBO_POWER", comboPower),
                            "symbols", "star", star)
  /\ gameEngine = [isSpinning |-> FALSE]
  /\ slotMachine = [autoSpinActive |-> FALSE, autoSpinTimeout |-> NoTimer]
  /\ uiManager = [autoSpinActive |-> FALSE]
  /\ timers = [autoSpin |-> {}, animation |-> <<>>]
  /\ spinsCharged = 0

UpgradedNext ==
  \/ PressSpace
  \/ AnimationDone
  \/ TriggerJackpot

\* ------------------------------------------------------------------------
\* UIManager: the spin text, the reels' "spinning" class and the timers that
\* handleSpinStart and handleSpinResult set for them
\* ------------------------------------------------------------------------
MaxPresses == 3        \* SPIN_STARTED events in a run

REEL_SPIN_DELAY == 100
REEL_STOP_DELAY == 400
REEL_STOP_BASE_TIME == 800
RESULT_PROCESS_DELAY == 2000

\* the indices of this.elements.reels
Reels == 0..2

\* setTimeout(callback, delay), called during the started-th SPIN_STARTED event
Timeout(callback, reel, delay, started) ==
  [callback |-> callback, reel |-> reel, delay |-> delay, started |-> started]

handleSpinStart(d) ==
  [d EXCEPT !.started = @ + 1,
            !.spinText = "SPINNING...",
            !.timers = @ \cup {Timeout("addSpinning", reel, reel * REEL_SPIN_DELAY,
                                       d.started + 1) : reel \in Reels}]

handleSpinResult(d) ==
  [d EXCEPT !.timers =
       @ \cup {Timeout("removeSpinning", reel,
                       REEL_STOP_BASE_TIME + reel * REEL_STOP_DELAY, d.started) :
                 reel \in Reels}
         \cup {Timeout("resetSpinText", 0, RESULT_PROCESS_DELAY, d.started)}]

\* timer y is due before timer x whenever they were set: y was set no later
\* and waits less, or was set earlier and waits no longer
DueBefore(y, x) ==
  \/ (y.started <= x.started /\ y.delay < x.delay)
  \/ (y.started < x.started /\ y.delay <= x.delay)

\* the callback of a timer runs
timeout(d, t) ==
  LET fired == [d EXCEPT !.timers = @ \ {t}]
  IN IF t.callback = "addSpinning" THEN [fired EXCEPT !.spinning = @ \cup {t.reel}]
     ELSE IF t.callback = "removeSpinning" THEN [fired EXCEPT !.spinning = @ \ {t.reel}]
     ELSE [fired EXCEPT !.spinText = "SPIN"]

\* the DOM after a SPIN_STARTED event whose handleSpinRequest took the
\* machine from m to next: handleSpinStart runs for every event,
\* handleSpinResult only when SPIN_RESULT was emitted
spinStarted(d, m, next) ==
  IF Len(next.timers.animation) > Len(m.timers.animation)
  THEN handleSpinResult(handleSpinStart(d))
  ELSE handleSpinStart(d)

BecomesShowing(m, d) ==
  /\ gameState' = m.gameState
  /\ gameEngine' = m.gameEngine
  /\ slotMachine' = m.slotMachine
  /\ uiManager' = m.uiManager
  /\ timers' = m.timers
  /\ spinsCharged' = spinsCharged + (IF m.gameState.totalSpins = gameState.totalSpins + 1 THEN 1 ELSE 0)
  /\ dom' = d
  /\ UNCHANGED <<memo, inventory, tally, dispatcherVars>>

\* a rejected request charges nothing, so it is not held back by MaxSpins
PressAllowed ==
  /\ dom.started < MaxPresses
  /\ SpinAllowed \/ ~canSpin(gameEngine, gameState)

\* keydown "Space" with both listeners of SPIN_STARTED: UIManager's and
\* EnhancedSlotMachine's
SpinStartedByKey ==
  /\ PressAllowed
  /\ \E rolls \in RollChoices :
       \E next \in {handleSpinRequest(Machine, rolls)} :
         BecomesShowing(next, spinStarted(dom, Machine, next))

\* the auto-spin timer fires; it emits SPIN_STARTED when auto-spin is on and
\* the spin is affordable
SpinStartedByTimer ==
  /\ PressAllowed
  /\ \E id \in timers.autoSpin : \E rolls \in RollChoices :
       \E next \in {autoSpinCallback(Machine, id, rolls)} :
         BecomesShowing(next, IF slotMachine.autoSpinActive /\ canAffordSpin(gameState)
                              THEN spinStarted(dom, Machine, next)
                              ELSE dom)

\* a timer of handleSpinStart or handleSpinResult fires
DomTimeout ==
  /\ \E t \in dom.timers :
       /\ \A y \in dom.timers : ~DueBefore(y, t)
       /\ dom' = timeout(dom, t)
  /\ UNCHANGED <<gameState, gameEngine, slotMachine, uiManager, timers, spinsCharged,
                 memo, inventory, tally, dispatcherVars>>

UiNext ==
  \/ SpinStartedByKey
  \/ SpinStartedByTimer
  \/ DomTimeout
  \/ AnimationDone
  \/ ToggleAutoSpin
  \/ ToggleMaxBet
  \/ PurchaseUpgrade

\* ------------------------------------------------------------------------
\* EventDispatcher
\* ------------------------------------------------------------------------
Event == {"spin_started", "state_changed"}

\* what a listener function does when it is called
Body == {"noop", "throws", "reemits", "subscribes", "unsubscribes"}

\* A function passed to on() is [body, once |-> 0]; the closure the k-th
\* call of once() passes to on() is [body of its callback, once |-> k].
Function(body) == [body |-> body, once |-> 0]
OnceWrapper(body, k) == [body |-> body, once |-> k]

\* this.listeners; an event never registered and an event with an emptied
\* array behave alike in on, off, emit and getListenerCount
NoListeners == [event \in Event |-> <<>>]

on(listeners, event, callback) == [listeners EXCEPT ![event] = Append(@, callback)]

\* Array.prototype.indexOf, 1-based; 0 for "not found"
indexOf(array, callback) ==
  IF \E i \in 1..Len(array) : array[i] = callback
  THEN CHOOSE i \in 1..Len(array) :
         array[i] = callback /\ \A j \in 1..(i - 1) : array[j] # callback
  ELSE 0

\* Array.prototype.splice(index, 1)
splice(array, index) ==
  SubSeq(array, 1, index - 1) \o SubSeq(array, index + 1, Len(array))

\* removal of every registration of the callback
offEvery(listeners, event, callback) ==
  [listeners EXCEPT ![event] = SelectSeq(@, LAMBDA registered : registered # callback)]

off(listeners, event, callback) ==
  LET index == indexOf(listeners[event], callback)
  IN IF index > 0 THEN [listeners EXCEPT ![event] = splice(@, index)] ELSE listeners

removeAllListeners(listeners, event) == [listeners EXCEPT ![event] = <<>>]

getListenerCount(listeners, event) == Len(listeners[event])

\* A run of emit threads the record r through the calls it makes:
\*   listeners  this.listeners
\*   emissions  one entry per call of emit, the nested ones included: its
\*              event, its copy of the listener array, the callbacks it
\*              invoked in order, how many of them threw
\*   onceRuns   per once() call, how often its callback has been invoked
\* and every call returns [run, threw]: the record after it, and whether it
\* ended by an exception.
Returned(r) == [run |-> r, threw |-> FALSE]
Threw(r) == [run |-> r, threw |-> TRUE]

\* forEach over this.listeners[event] itself, without the copy
IteratedLive(r, id) == r.listeners[r.emissions[id].event]

\* const listeners = [...this.listeners[event]]: the array forEach walks
Iterated(r, id) == r.emissions[id].listeners

\* the call without the try/catch around it
tryCatchAbsent(outcome) == outcome

\* try { callback(data) } catch (error) { console.error(...) }
tryCatch(outcome) == Returned(outcome.run)

RECURSIVE emit(_, _, _)
RECURSIVE forEach(_, _, _, _)
RECURSIVE invoke(_, _, _, _)

\* the function itself: depth counts the emissions it is running inside
callBody(r, event, body, depth) ==
  IF body = "throws" THEN Threw(r)
  ELSE IF body = "reemits"
       THEN (IF depth <= MaxNesting THEN emit(r, event, depth + 1) ELSE Returned(r))
  ELSE IF body = "subscribes"
       THEN Returned([r EXCEPT !.listeners = on(@, event, Function("noop"))])
  ELSE IF body = "unsubscribes"
       THEN Returned([r EXCEPT !.listeners = off(@, event, Function("noop"))])
  ELSE Returned(r)

\* the closure of once(): callback(data); unsubscribe();
onceWrapper(r, event, callback, depth) ==
  LET called == callBody([r EXCEPT !.onceRuns[callback.once] = @ + 1],
                         event, callback.body, depth)
  IN IF called.threw THEN called
     ELSE Returned([called.run EXCEPT !.listeners = off(@, event, callback)])

invoke(r, event, callback, depth) ==
  IF callback.once = 0 THEN callBody(r, event, callback.body, depth)
  ELSE onceWrapper(r, event, callback, depth)

\* listeners.forEach(...), from index i on
forEach(r, id, i, depth) ==
  IF i > Len(Iterated(r, id)) THEN Returned(r)
  ELSE LET callback == Iterated(r, id)[i]
           event == r.emissions[id].event
           entered == [r EXCEPT !.emissions[id].invoked = Append(@, callback)]
           outcome == invoke(entered, event, callback, depth)
           noted == [outcome EXCEPT !.run.emissions[id].thrown =
                                        @ + (IF outcome.threw THEN 1 ELSE 0)]
           handled == tryCatch(noted)
       IN IF handled.threw THEN handled
          ELSE forEach(handled.run, id, i + 1, depth)

emit(r, event, depth) ==
  LET id == Len(r.emissions) + 1
      started == [r EXCEPT !.emissions =
                    Append(@, [event |-> event, listeners |-> r.listeners[event],
                               invoked |-> <<>>, thrown |-> 0])]
  IN forEach(started, id, 1, depth)

\* once(event, callback), for the k-th call of once
once(listeners, event, body, k) == on(listeners, event, OnceWrapper(body, k))

\* ------------------------------------------------------------------------
\* The EventDispatcher as a state machine: its callers register, unsubscribe
\* and emit; every call runs to its end before the next one starts
\* ------------------------------------------------------------------------
OnChoices ==
  {<<"spin_started", body>> : body \in Body} \cup {<<"state_changed", "noop">>}
OnceChoices == {<<"spin_started", body>> : body \in {"noop", "throws", "reemits"}}

\* the latest call and what its caller could observe of it
Call(op, event, callback) ==
  [op |-> op, event |-> event, callback |-> callback,
   before |-> eventDispatcher.listeners, emissions |-> <<>>, uncaught |-> FALSE]

DispatcherInit ==
  /\ eventDispatcher = [listeners |-> NoListeners]
  /\ harness = [handles |-> {}, onceRuns |-> <<>>, registered |-> 0, emits |-> 0,
                lastCall |-> [op |-> "none", event |-> "state_changed",
                              callback |-> Function("noop"), before |-> NoListeners,
                              emissions |-> <<>>, uncaught |-> FALSE]]

\* unsubscribe = dispatcher.on(event, callback)
On ==
  /\ harness.registered < MaxRegistrations
  /\ \E choice \in OnChoices :
       LET event == choice[1]
           callback == Function(choice[2])
       IN /\ eventDispatcher' =
               [eventDispatcher EXCEPT !.listeners = on(@, event, callback)]
          /\ harness' = [harness EXCEPT !.handles = @ \cup {<<event, callback>>},
                                        !.registered = @ + 1,
                                        !.lastCall = Call("on", event, callback)]
  /\ UNCHANGED <<gameVars, tally>>

\* unsubscribe = dispatcher.once(event, callback)
Once ==
  /\ harness.registered < MaxRegistrations
  /\ \E choice \in OnceChoices :
       LET event == choice[1]
           k == Len(harness.onceRuns) + 1
       IN /\ eventDispatcher' =
               [eventDispatcher EXCEPT !.listeners = once(@, event, choice[2], k)]
          /\ harness' = [harness EXCEPT
                           !.handles = @ \cup {<<event, OnceWrapper(choice[2], k)>>},
                           !.onceRuns = Append(@, 0),
                           !.registered = @ + 1,
                           !.lastCall = Call("once", event, OnceWrapper(choice[2], k))]
  /\ UNCHANGED <<gameVars, tally>>

\* a function returned by on() or once() is called: () => this.off(event, callback)
Unsubscribe ==
  /\ \E handle \in harness.handles :
       /\ eventDispatcher' =
            [eventDispatcher EXCEPT !.listeners = off(@, handle[1], handle[2])]
       /\ harness' = [harness EXCEPT !.lastCall = Call("unsubscribe", handle[1], handle[2])]
  /\ UNCHANGED <<gameVars, tally>>

RemoveAllListeners ==
  /\ \E event \in Event :
       /\ eventDispatcher' =
            [eventDispatcher EXCEPT !.listeners = removeAllListeners(@, event)]
       /\ harness' = [harness EXCEPT
                        !.lastCall = Call("removeAllListeners", event, Function("noop"))]
  /\ UNCHANGED <<gameVars, tally>>

\* dispatcher.emit(event) called from outside any listener
Emit ==
  /\ harness.emits < MaxEmits
  /\ \E event \in Event :
       LET outcome == emit([listeners |-> eventDispatcher.listeners, emissions |-> <<>>,
                            onceRuns |-> harness.onceRuns], event, 1)
       IN /\ eventDispatcher' = [eventDispatcher EXCEPT !.listeners = outcome.run.listeners]
          /\ harness' = [harness EXCEPT
                           !.onceRuns = outcome.run.onceRuns,
                           !.emits = @ + 1,
                           !.lastCall = [Call("emit", event, Function("noop")) EXCEPT
                                           !.emissions = outcome.run.emissions,
                                           !.uncaught = outcome.threw]]
  /\ UNCHANGED <<gameVars, tally>>

DispatcherNext ==
  \/ On
  \/ Once
  \/ Unsubscribe
  \/ RemoveAllListeners
  \/ Emit

\* ------------------------------------------------------------------------
\* Draw statistics: for a luck setting, how many of the 10000 values of
\* Math.floor(Math.random() * 10000) make calculateSpinResult win, and how
\* many make selectWinningSymbol return each symbol
\* ------------------------------------------------------------------------
Draw == 0..(DrawRange - 1)

NoCounts == [s \in Symbol |-> 0]

TallyIdle ==
  [luckMeter |-> 0, maxLuckLevel |-> 0, counted |-> "none", wins |-> 0, symbols |-> NoCounts]

\* the GameState the tally draws for
TallyState(t) ==
  [reset EXCEPT !.luckMeter = t.luckMeter, !.upgrades.luck.MAX_LUCK = t.maxLuckLevel]

WinDraws(gs) == {random \in Draw : spinResultType(gs, random) = "win"}

SymbolDraws(luckMeter, symbol) ==
  {random \in Draw : selectWinningSymbol(luckMeter, random) = symbol}

\* luck values the symbol draws are counted for
SymbolLuck == {0}

TallyInit ==
  tally \in {t \in [luckMeter : 0..LuckCeiling,
                    maxLuckLevel : 0..LUCK_UPGRADES.MAX_LUCK.maxLevel,
                    counted : {"none"}, wins : {0}, symbols : {NoCounts}] :
               t.luckMeter <= getMaxLuck(TallyState(t))}

CountWinDraws ==
  /\ tally.counted = "none"
  /\ tally' = [tally EXCEPT !.counted = "wins",
                            !.wins = Cardinality(WinDraws(TallyState(tally)))]
  /\ UNCHANGED <<gameVars, dispatcherVars>>

CountSymbolDraws ==
  /\ tally.counted = "none"
  /\ tally.luckMeter \in SymbolLuck
  /\ tally' = [tally EXCEPT
                 !.counted = "symbols",
                 !.symbols = [s \in Symbol |-> Cardinality(SymbolDraws(tally.luckMeter, s))]]
  /\ UNCHANGED <<gameVars, dispatcherVars>>

TallyNext ==
  \/ CountWinDraws
  \/ CountSymbolDraws

\* ------------------------------------------------------------------------
\* Specifications
\* ------------------------------------------------------------------------
vars == <<gameVars, tally, dispatcherVars>>

Init == GameInit /\ tally = TallyIdle /\ DispatcherInit

Next == GameNext

Spec == Init /\ [][Next]_vars

DrawsInit == GameInit /\ TallyInit /\ DispatcherInit

SpecDraws == DrawsInit /\ [][TallyNext]_vars

SpecDispatcher == Init /\ [][DispatcherNext]_vars

SpecUi == Init /\ [][UiNext]_vars

SpecInventory == Init /\ [][InventoryNext]_vars

UpgradedStart == UpgradedInit /\ tally = TallyIdle /\ DispatcherInit

SpecUpgraded == UpgradedStart /\ [][UpgradedNext]_vars

\* ------------------------------------------------------------------------
\* Properties
\* ------------------------------------------------------------------------
\* C1: at most one spin is in flight at any time: between the acceptance of
\* a spin and the processing of its win or loss no further spin is accepted.
C1_OneSpinInFlight == Len(timers.animation) <= 1

\* C2: every spin request that is charged (totalSpins incremented, spin cost
\* deducted) goes on to emit SPIN_RESULT and waits for its result to be
\* processed, whatever the balance was.
C2_ChargedSpinGetsResult ==
  [][spinsCharged' = spinsCharged + 1 =>
       Len(timers'.animation) = Len(timers.animation) + 1]_vars

\* C3: at luck 0 the number of draws in 0..9999 for which selectWinningSymbol
\* returns a symbol is proportional to the symbol's SYMBOL_PROBABILITIES.
C3_SymbolsProportional ==
  (tally.counted = "symbols" /\ tally.luckMeter = 0) =>
    \A s, t \in Symbol :
      tally.symbols[s] * SYMBOL_PROBABILITIES[t] = tally.symbols[t] * SYMBOL_PROBABILITIES[s]

\* C4: for every luck value L below getMaxLuck() the number of draws in
\* 0..9999 for which calculateSpinResult returns a win is
\* min(TOTAL_BASE_WIN_PROBABILITY + 10 * L, 9500).
C4_WinDrawCount ==
  (tally.counted = "wins" /\ tally.luckMeter < getMaxLuck(TallyState(tally))) =>
    LET linear == TOTAL_BASE_WIN_PROBABILITY + 10 * tally.luckMeter
    IN tally.wins = IF linear < WinChanceCap THEN linear ELSE WinChanceCap

\* the luck value 3, whose bonus 3 * 0.1 * 100 is not exactly 30
C4_Witness == tally.counted = "wins" /\ tally.luckMeter = 3 /\ tally.wins = 1905

\* C5: a spin generated while luckMeter >= getMaxLuck() yields a luck_jackpot
\* result with three stars whatever the draws are, and processing that result
\* credits the whole current jackpot, resets the jackpot to INITIAL_JACKPOT,
\* increments jackpots by one and resets luckMeter to 0.
C5_LuckJackpot ==
  [][/\ (/\ Len(timers'.animation) = Len(timers.animation) + 1
         /\ gameState.luckMeter >= getMaxLuck(gameState))
        => LET spinData == timers'.animation[Len(timers'.animation)]
           IN /\ spinData.result.type = "luck_jackpot"
              /\ spinData.result.symbols = <<"star", "star", "star">>
     /\ (/\ Len(timers'.animation) = Len(timers.animation) - 1
         /\ timers.animation[1].result.type = "luck_jackpot")
        => /\ gameState'.credits = gameState.credits + gameState.jackpot
           /\ gameState'.jackpot = INITIAL_JACKPOT
           /\ gameState'.jackpots = gameState.jackpots + 1
           /\ gameState'.luckMeter = 0]_vars

\* a luck jackpot has been processed (no other jackpot is drawn by Rolls)
C5_Witness ==
  /\ gameState.jackpots = 1
  /\ gameState.luckMeter = 0
  /\ gameState.jackpot = INITIAL_JACKPOT
  /\ gameState.credits > INITIAL_JACKPOT

\* C6: at most one auto-spin timer is pending at any time, and while
\* auto-spin is off (switched off, after resetGame, after handleGameError)
\* no auto-spin timer is pending, so the mechanism emits no SPIN_STARTED.
C6_AutoSpinTimer ==
  /\ Cardinality(timers.autoSpin) <= 1
  /\ ~slotMachine.autoSpinActive => timers.autoSpin = {}

\* handleGameError switched auto-spin off after a charged spin failed, the
\* UI toggle still showing it on
C6_Witness ==
  /\ uiManager.autoSpinActive
  /\ ~slotMachine.autoSpinActive
  /\ gameState.totalSpins > 0
  /\ gameState.credits < getSpinCost(gameState)
  /\ timers.autoSpin = {}

\* C7: a callback registered with once() is invoked at most once over any
\* sequence of emits, also when it throws or re-emits the event.
C7_OnceAtMostOnce == \A k \in 1..Len(harness.onceRuns) : harness.onceRuns[k] <= 1

\* C8: every emission invokes exactly the listeners registered when it
\* started, once each and in registration order, whatever on/off calls the
\* listeners make meanwhile; a listener added meanwhile is not invoked.
C8_EmitSnapshot ==
  \A n \in 1..Len(harness.lastCall.emissions) :
    harness.lastCall.emissions[n].invoked = harness.lastCall.emissions[n].listeners

\* an emission of two listeners during which a listener was added
C8_Witness ==
  /\ harness.lastCall.op = "emit"
  /\ \E n \in 1..Len(harness.lastCall.emissions) :
       LET emission == harness.lastCall.emissions[n]
       IN /\ Len(emission.invoked) >= 2
          /\ Len(eventDispatcher.listeners[emission.event]) > Len(emission.listeners)

\* C9: a listener that throws does not make emit throw to its caller, and
\* every other listener registered for the event is still invoked.
C9_EmitIsolatesFailures ==
  /\ ~harness.lastCall.uncaught
  /\ \A n \in 1..Len(harness.lastCall.emissions) :
       LET emission == harness.lastCall.emissions[n]
       IN emission.thrown > 0 =>
            \A i \in 1..Len(emission.listeners) :
              \E j \in 1..Len(emission.invoked) : emission.invoked[j] = emission.listeners[i]

\* the first of two listeners threw and the second was invoked
C9_Witness ==
  /\ harness.lastCall.op = "emit"
  /\ \E n \in 1..Len(harness.lastCall.emissions) :
       LET emission == harness.lastCall.emissions[n]
       IN /\ emission.thrown > 0
          /\ Len(emission.listeners) >= 2
          /\ emission.listeners[1].body = "throws"
          /\ emission.invoked[2] = emission.listeners[2]

Occurrences(array, callback) == Cardinality({i \in 1..Len(array) : array[i] = callback})

Others(array, callback) == SelectSeq(array, LAMBDA registered : registered # callback)

OtherEventsKept ==
  \A event \in Event \ {harness.lastCall.event} :
    eventDispatcher.listeners[event] = harness.lastCall.before[event]

\* C10 as stated: after the unsubscribe function returned by on() is called
\* the callback is registered no more (no later emit invokes it), the
\* listener count of the event has dropped by exactly one, and the listeners
\* of other callbacks and of other events are as before.
C10_UnsubscribeRemovesCallback ==
  harness.lastCall.op = "unsubscribe" =>
    LET event == harness.lastCall.event
        callback == harness.lastCall.callback
        before == harness.lastCall.before[event]
        after == eventDispatcher.listeners[event]
    IN /\ Occurrences(after, callback) = 0
       /\ getListenerCount(eventDispatcher.listeners, event) = Len(before) - 1
       /\ Others(after, callback) = Others(before, callback)
       /\ OtherEventsKept

\* C10 amended: a call of the unsubscribe function removes the earliest
\* registration of its callback still in the event's list and nothing else:
\* the count drops by one and the callback is invoked once less per emit (no
\* more, if it was registered once); with no registration left (unsubscribed
\* or removed before) the call changes nothing.
C10_UnsubscribeRemovesOneRegistration ==
  harness.lastCall.op = "unsubscribe" =>
    LET event == harness.lastCall.event
        callback == harness.lastCall.callback
        before == harness.lastCall.before[event]
        after == eventDispatcher.listeners[event]
    IN /\ OtherEventsKept
       /\ IF Occurrences(before, callback) = 0 THEN after = before
          ELSE /\ getListenerCount(eventDispatcher.listeners, event) = Len(before) - 1
               /\ Occurrences(after, callback) = Occurrences(before, callback) - 1
               /\ \E i \in 1..Len(before) :
                    /\ before[i] = callback
                    /\ \A j \in 1..(i - 1) : before[j] # callback
                    /\ \A j \in 1..Len(after) :
                         after[j] = IF j < i THEN before[j] ELSE before[j + 1]

\* the unsubscribe function of a callback that was registered twice
C10_Witness ==
  /\ harness.lastCall.op = "unsubscribe"
  /\ Occurrences(harness.lastCall.before[harness.lastCall.event], harness.lastCall.callback) = 2
  /\ Occurrences(eventDispatcher.listeners[harness.lastCall.event], harness.lastCall.callback) = 1

\* C11: for the same number of consecutive wins, and below the cap
\* MAX_COMBO_MULTIPLIER, the combo multiplier with COMBO_POWER at level 1 or
\* more is strictly larger than the combo multiplier with COMBO_POWER at level 0.
C11_ComboPowerRaisesCombo ==
  LET atLevelZero ==
        incrementCombo([gameState EXCEPT !.upgrades.multiplier.COMBO_POWER = 0,
                                         !.comboCount = @ - 1]).comboMultiplier
  IN (/\ gameState.upgrades.multiplier.COMBO_POWER >= 1
      /\ gameState.comboCount >= 1
      /\ FLess(atLevelZero, FInt(MAX_COMBO_MULTIPLIER)))
       => FLess(atLevelZero, gameState.comboMultiplier)

\* C12: with the star upgrade at level 1, the credits a jackpot win (three
\* stars or a luck jackpot) awards are twice the credits the same win awards
\* at level 0 for the same jackpot value.
C12_StarUpgradeDoublesJackpot ==
  [][(/\ gameState.upgrades.symbols.star = 1
      /\ gameState'.jackpots = gameState.jackpots + 1)
       => LET spinData == Head(timers.animation)
              atLevelZero == handleWin([gameState EXCEPT !.upgrades.symbols.star = 0],
                                       spinData.result, spinData.payout)
          IN gameState'.credits - gameState.credits =
               2 * (atLevelZero.credits - gameState.credits)]_vars

\* C13: once every pending timer has fired, the UI is idle again (no reel has
\* the "spinning" class, the spin text is "SPIN"), whatever SPIN_STARTED
\* events there were, accepted or rejected.
C13_SpinningUiReturnsToIdle ==
  (dom.timers = {} /\ timers.animation = <<>> /\ timers.autoSpin = {})
    => (dom.spinning = {} /\ dom.spinText = "SPIN")

====
